---- MODULE Spec2Model ----
\* A model of aimakerspace/text_utils.py: the CharacterTextSplitter, the
\* TextFileLoader and the PDFFileLoader.  Strings are sequences of one-character
\* strings; a Python list is a sequence.
EXTENDS Integers, Sequences, FiniteSets, TLC

VARIABLES
    splitter,       \* the CharacterTextSplitter object that exists (or NoObject)
    lastCall,       \* the last splitter call: its arguments and its outcome
    target,         \* what the filesystem holds at TextFileLoader.path
    documents,      \* TextFileLoader.documents
    loadCall,       \* the last TextFileLoader call: what it saw and its outcome
    calls,          \* number of TextFileLoader calls made so far
    firstResult,    \* a copy of self.documents as the first call left it, and
                    \* whether every call so far saw the filesystem of the first
    pdf,            \* the PDF the filesystem holds at PDFFileLoader.path
    pdf_documents,  \* PDFFileLoader.documents
    pdf_metadata,   \* PDFFileLoader.metadata
    pdfCall         \* the last PDFFileLoader call: its outcome, and for every call
                    \* so far the length of documents when it began

splitterVars == <<splitter, lastCall>>
loaderVars == <<target, documents, loadCall, calls, firstResult>>
pdfVars == <<pdf, pdf_documents, pdf_metadata, pdfCall>>
vars == <<splitter, lastCall, target, documents, loadCall, calls, firstResult,
          pdf, pdf_documents, pdf_metadata, pdfCall>>

----------------------------------------------------------------------------
\* Bounds of the model.

\* longest text handed to split()
MaxLen == 5
\* chunk_size and chunk_overlap range over -MaxNeg .. MaxChunk
MaxChunk == 3
MaxNeg == 1
\* split_texts() is handed at most MaxTexts texts
MaxTexts == 2

Alphabet == {"a", "b"}

Min(a, b) == IF a < b THEN a ELSE b
Max(a, b) == IF a > b THEN a ELSE b

RECURSIVE SeqsUpTo(_, _)
\* every sequence over S of length at most n
SeqsUpTo(S, n) ==
    IF n = 0 THEN {<<>>}
    ELSE LET shorter == SeqsUpTo(S, n - 1)
         IN  shorter \cup {Append(s, x) : s \in {t \in shorter : Len(t) = n - 1}, x \in S}

Ints == (0 - MaxNeg) .. MaxChunk
Texts == SeqsUpTo(Alphabet, MaxLen)
\* the texts handed to split_texts()
DocPool == {<<>>, <<"a">>, <<"a", "b">>, <<"b", "a", "a", "b">>}
TextLists == SeqsUpTo(DocPool, MaxTexts)

----------------------------------------------------------------------------
\* Python primitives the code relies on.

\* an index of a slice, as Python normalises it against a sequence of length n
SliceIndex(x, n) == IF x < 0 THEN Max(x + n, 0) ELSE Min(x, n)

\* s[lo:hi] taking one character too few
SliceShort(s, lo, hi) ==
    LET a == SliceIndex(lo, Len(s))
        b == SliceIndex(hi - 1, Len(s))
    IN  IF b <= a THEN <<>> ELSE SubSeq(s, a + 1, b)

\* s[lo:hi]
Slice(s, lo, hi) ==
    LET a == SliceIndex(lo, Len(s))
        b == SliceIndex(hi, Len(s))
    IN  IF b <= a THEN <<>> ELSE SubSeq(s, a + 1, b)

RECURSIVE Range(_, _, _)
\* range(start, stop, step) as a sequence, for step # 0
Range(start, stop, step) ==
    IF (step > 0 /\ start >= stop) \/ (step < 0 /\ start <= stop) THEN <<>>
    ELSE <<start>> \o Range(start + step, stop, step)

----------------------------------------------------------------------------
\* CharacterTextSplitter

NoObject == [chunk_size |-> 0, chunk_overlap |-> 0, exists |-> FALSE]

\* the assert of __init__ ignored: every pair of integers is accepted
InitNoAssert(chunk_size, chunk_overlap) ==
    [raised |-> "none",
     obj |-> [chunk_size |-> chunk_size, chunk_overlap |-> chunk_overlap, exists |-> TRUE]]

\* CharacterTextSplitter.__init__: the outcome and the object constructed
CharacterTextSplitter(chunk_size, chunk_overlap) ==
    IF ~(chunk_size > chunk_overlap)
    THEN [raised |-> "AssertionError", obj |-> NoObject]
    ELSE [raised |-> "none",
          obj |-> [chunk_size |-> chunk_size, chunk_overlap |-> chunk_overlap,
                   exists |-> TRUE]]

RECURSIVE AppendChunks(_, _, _, _)
\* the for loop of split: chunks.append(text[i : i + chunk_size]) for i in offsets
AppendChunks(chunks, text, offsets, chunk_size) ==
    IF offsets = <<>> THEN chunks
    ELSE AppendChunks(Append(chunks, Slice(text, Head(offsets), Head(offsets) + chunk_size)),
                      text, Tail(offsets), chunk_size)

\* split() that takes no offset within chunk_overlap of the end of the text
SplitStopBeforeOverlap(self, text) ==
    AppendChunks(<<>>, text,
                 Range(0, Len(text) - self.chunk_overlap, self.chunk_size - self.chunk_overlap),
                 self.chunk_size)

\* CharacterTextSplitter.split
split(self, text) ==
    AppendChunks(<<>>, text,
                 Range(0, Len(text), self.chunk_size - self.chunk_overlap),
                 self.chunk_size)

RECURSIVE ExtendEach(_, _, _)
\* the for loop of split_texts: chunks.extend(self.split(text)) for text in texts
ExtendEach(chunks, self, texts) ==
    IF texts = <<>> THEN chunks
    ELSE ExtendEach(chunks \o split(self, Head(texts)), self, Tail(texts))

RECURSIVE JoinTexts(_)
JoinTexts(texts) == IF texts = <<>> THEN <<>> ELSE Head(texts) \o JoinTexts(Tail(texts))

\* split_texts() that splits the texts joined into one string
SplitJoined(self, texts) == split(self, JoinTexts(texts))

\* CharacterTextSplitter.split_texts
split_texts(self, texts) == ExtendEach(<<>>, self, texts)

NoCall ==
    [op |-> "none", chunk_size |-> 0, chunk_overlap |-> 0, raised |-> "none",
     obj |-> NoObject, text |-> <<>>, texts |-> <<>>, out |-> <<>>]

\* splitter = CharacterTextSplitter(chunk_size, chunk_overlap)
Construct ==
    \E chunk_size \in Ints, chunk_overlap \in Ints :
        LET r == CharacterTextSplitter(chunk_size, chunk_overlap)
        IN  /\ lastCall' = [NoCall EXCEPT !.op = "init", !.chunk_size = chunk_size,
                                          !.chunk_overlap = chunk_overlap,
                                          !.raised = r.raised, !.obj = r.obj]
            \* an exception leaves the name bound to what it was bound to
            /\ splitter' = IF r.raised = "none" THEN r.obj ELSE splitter
            /\ UNCHANGED <<loaderVars, pdfVars>>

\* splitter.split(text)
Split ==
    /\ splitter.exists
    /\ \E text \in Texts :
        lastCall' = [NoCall EXCEPT !.op = "split", !.text = text,
                                   !.out = split(splitter, text)]
    /\ UNCHANGED <<splitter, loaderVars, pdfVars>>

\* splitter.split_texts(texts)
SplitTexts ==
    /\ splitter.exists
    /\ \E texts \in TextLists :
        lastCall' = [NoCall EXCEPT !.op = "split_texts", !.texts = texts,
                                   !.out = split_texts(splitter, texts)]
    /\ UNCHANGED <<splitter, loaderVars, pdfVars>>

----------------------------------------------------------------------------
\* The filesystem the loaders read.

\* a directory holds at most MaxFiles files; a PDF in it has at most MaxDirPages pages
MaxFiles == 2
MaxDirPages == 1
\* a loader is called at most MaxCalls times
MaxCalls == 2
\* the PDF handed to PDFFileLoader has at most MaxPages pages
MaxPages == 3

Whitespace == {" ", "\n", "\t"}

RECURSIVE LStrip(_)
LStrip(s) == IF s # <<>> /\ Head(s) \in Whitespace THEN LStrip(Tail(s)) ELSE s

RECURSIVE RStrip(_)
RStrip(s) ==
    IF s # <<>> /\ s[Len(s)] \in Whitespace THEN RStrip(SubSeq(s, 1, Len(s) - 1)) ELSE s

\* str.strip()
Strip(s) == RStrip(LStrip(s))

\* str.endswith(suffix)
EndsWith(s, suffix) ==
    /\ Len(s) >= Len(suffix)
    /\ SubSeq(s, Len(s) - Len(suffix) + 1, Len(s)) = suffix

DotTxt == <<".", "t", "x", "t">>
DotPdf == <<".", "p", "d", "f">>

\* pdf_reader.metadata of a PDF without an information dictionary
NoInfo == [present |-> FALSE, dict |-> {}]

\* The content of a file: what reading it as text gives (and whether it decodes),
\* and what PyPDF2 makes of it: whether opening it raises, its pages' texts, the
\* page whose extract_text() raises (0: none), and its information dictionary.
File(name, text, decodable, openFails, pages, badPage, info) ==
    [name |-> name, text |-> text, decodable |-> decodable, openFails |-> openFails,
     pages |-> pages, badPage |-> badPage, info |-> info]

TxtFile(name, text, decodable) == File(name, text, decodable, TRUE, <<>>, 0, NoInfo)
PdfFile(name, openFails, pages, badPage, info) ==
    File(name, <<>>, FALSE, openFails, pages, badPage, info)

TxtContents == {<<>>, <<"h", "i">>}
DirPageTexts == {<<" ">>, <<"w">>}

\* the files a directory may hold
FilePool ==
    {TxtFile(<<"a">> \o DotTxt, t, TRUE) : t \in TxtContents}
    \cup {TxtFile(<<"a">> \o DotTxt, <<>>, FALSE)}
    \cup {TxtFile(<<"c", ".", "m", "d">>, <<"h", "i">>, TRUE),
          TxtFile(<<"d", ".", "T", "X", "T">>, <<"h", "i">>, TRUE)}
    \cup {PdfFile(<<"b">> \o DotPdf, TRUE, <<>>, 0, NoInfo)}
    \cup UNION {{PdfFile(<<"b">> \o DotPdf, FALSE, p, bad, NoInfo) : bad \in 0 .. Len(p)} :
                    p \in SeqsUpTo(DirPageTexts, MaxDirPages)}

NoFile == TxtFile(<<>>, <<>>, FALSE)

\* a path that names nothing
Missing == [kind |-> "missing", name |-> <<"n", "o">>, file |-> NoFile, files |-> <<>>]

\* what os.path.isdir / os.path.isfile / os.walk see at self.path
Targets ==
    {Missing}
    \cup {[kind |-> "file", name |-> f.name, file |-> f, files |-> <<>>] :
            f \in FilePool}
    \cup {[kind |-> "dir", name |-> <<"d">>, file |-> NoFile, files |-> fs] :
            fs \in SeqsUpTo(FilePool, MaxFiles)}

----------------------------------------------------------------------------
\* TextFileLoader.  Each method is given self.documents and returns the new
\* self.documents, the exception that left the method ("none": it returned) and
\* the files it opened, in order.

Outcome(docs, raised, reads) == [documents |-> docs, raised |-> raised, reads |-> reads]

\* load_file() assigning a new list instead of appending
LoadFileReset(self_documents, file) ==
    IF ~file.decodable THEN Outcome(self_documents, "UnicodeDecodeError", <<file.name>>)
    ELSE Outcome(<<file.text>>, "none", <<file.name>>)

\* TextFileLoader.load_file
load_file(self_documents, file) ==
    IF ~file.decodable THEN Outcome(self_documents, "UnicodeDecodeError", <<file.name>>)
    ELSE Outcome(Append(self_documents, file.text), "none", <<file.name>>)

RECURSIVE ExtractPages(_, _, _)
\* the page loop of load_pdf_file: text_content += page.extract_text() + "\n"
ExtractPages(file, page_num, text_content) ==
    IF page_num >= Len(file.pages) THEN [raised |-> "none", text_content |-> text_content]
    ELSE IF file.badPage = page_num + 1
         THEN [raised |-> "PdfReadError", text_content |-> text_content]
         ELSE ExtractPages(file, page_num + 1,
                           text_content \o file.pages[page_num + 1] \o <<"\n">>)

\* load_pdf_file() without the test for extracted text
LoadPdfAlwaysAppend(self_documents, file) ==
    IF file.openFails THEN Outcome(self_documents, "PdfReadError", <<file.name>>)
    ELSE LET r == ExtractPages(file, 0, <<>>)
         IN  IF r.raised # "none" THEN Outcome(self_documents, r.raised, <<file.name>>)
             ELSE Outcome(Append(self_documents, r.text_content), "none", <<file.name>>)

\* load_pdf_file() whose except clause does not re-raise
LoadPdfSwallow(self_documents, file) ==
    IF file.openFails THEN Outcome(self_documents, "none", <<file.name>>)
    ELSE LET r == ExtractPages(file, 0, <<>>)
         IN  IF r.raised # "none" THEN Outcome(self_documents, "none", <<file.name>>)
             ELSE IF Strip(r.text_content) # <<>>
                  THEN Outcome(Append(self_documents, r.text_content), "none", <<file.name>>)
                  ELSE Outcome(self_documents, "none", <<file.name>>)

\* TextFileLoader.load_pdf_file
load_pdf_file(self_documents, file) ==
    IF file.openFails THEN Outcome(self_documents, "PdfReadError", <<file.name>>)
    ELSE LET r == ExtractPages(file, 0, <<>>)
         IN  IF r.raised # "none" THEN Outcome(self_documents, r.raised, <<file.name>>)
             ELSE IF Strip(r.text_content) # <<>>
                  THEN Outcome(Append(self_documents, r.text_content), "none", <<file.name>>)
                  ELSE Outcome(self_documents, "none", <<file.name>>)

RECURSIVE Walk(_, _, _, _)
\* the loops of load_directory over the files os.walk yields, from the i-th on
Walk(self_documents, reads, files, i) ==
    IF i > Len(files) THEN Outcome(self_documents, "none", reads)
    ELSE LET file == files[i]
         IN  IF EndsWith(file.name, DotTxt)
             THEN IF ~file.decodable
                  THEN Outcome(self_documents, "UnicodeDecodeError", Append(reads, i))
                  ELSE Walk(Append(self_documents, file.text), Append(reads, i), files, i + 1)
             ELSE IF EndsWith(file.name, DotPdf)
             THEN \* pdf_loader = TextFileLoader(file_path, self.encoding)
                  LET pdf_loader == load_pdf_file(<<>>, file)
                  IN  IF pdf_loader.raised # "none"
                      THEN Outcome(self_documents, pdf_loader.raised, Append(reads, i))
                      ELSE Walk(self_documents \o pdf_loader.documents, Append(reads, i),
                                files, i + 1)
             ELSE Walk(self_documents, reads, files, i + 1)

\* TextFileLoader.load_directory; reads are positions in walk order
load_directory(self_documents, files) == Walk(self_documents, <<>>, files, 1)

\* load() that reads a file of any other extension as text
LoadAnyExtension(self_documents, tgt) ==
    IF tgt.kind = "dir" THEN load_directory(self_documents, tgt.files)
    ELSE IF tgt.kind = "file"
    THEN LET r == IF EndsWith(tgt.name, DotPdf)
                  THEN load_pdf_file(self_documents, tgt.file)
                  ELSE load_file(self_documents, tgt.file)
         IN  Outcome(r.documents, r.raised, <<1>>)
    ELSE Outcome(self_documents, "ValueError", <<>>)

\* TextFileLoader.load
load(self_documents, tgt) ==
    IF tgt.kind = "dir" THEN load_directory(self_documents, tgt.files)
    ELSE IF tgt.kind = "file"
    THEN IF EndsWith(tgt.name, DotTxt)
         THEN LET r == load_file(self_documents, tgt.file)
              IN  Outcome(r.documents, r.raised, <<1>>)
         ELSE IF EndsWith(tgt.name, DotPdf)
         THEN LET r == load_pdf_file(self_documents, tgt.file)
              IN  Outcome(r.documents, r.raised, <<1>>)
         ELSE Outcome(self_documents, "ValueError", <<>>)
    ELSE Outcome(self_documents, "ValueError", <<>>)

NoLoadCall ==
    [op |-> "none", fs |-> Missing, raised |-> "none", before |-> <<>>, reads |-> <<>>,
     returns |-> FALSE, returned |-> <<>>]

NoFirst == [fs |-> Missing, documents |-> <<>>, unchanged |-> TRUE]

\* one call of a TextFileLoader method that runs load()
LoaderCall(op, returnsList) ==
    /\ LET r == load(documents, target)
           returns == returnsList /\ r.raised = "none"
       IN  /\ documents' = r.documents
           /\ loadCall' = [op |-> op, fs |-> target, raised |-> r.raised,
                           before |-> documents, reads |-> r.reads,
                           returns |-> returns,
                           returned |-> IF returns THEN r.documents ELSE <<>>]
           /\ firstResult' =
                IF calls = 0
                THEN [fs |-> target, documents |-> r.documents, unchanged |-> TRUE]
                ELSE [firstResult EXCEPT !.unchanged = @ /\ target = firstResult.fs]
    /\ calls' = calls + 1
    /\ UNCHANGED <<target, splitterVars, pdfVars>>

\* loader.load(): returns None
Load ==
    /\ calls < MaxCalls
    /\ LoaderCall("load", FALSE)

\* loader.load_documents(): self.load(), then return self.documents
LoadDocuments ==
    /\ calls < MaxCalls
    /\ LoaderCall("load_documents", TRUE)

\* the environment removes what self.path names, or puts a file of another type there
Replace ==
    /\ calls < MaxCalls
    /\ target.kind # "missing"
    /\ \/ target' = Missing
       \/ /\ target.kind = "dir"
          /\ \E f \in {TxtFile(<<"c", ".", "m", "d">>, <<"h", "i">>, TRUE)} :
                target' = [kind |-> "file", name |-> f.name, file |-> f, files |-> <<>>]
    /\ UNCHANGED <<documents, loadCall, calls, firstResult, splitterVars, pdfVars>>

----------------------------------------------------------------------------
\* PDFFileLoader

PdfPath == "doc.pdf"
PageTexts == {<<" ">>, <<"x">>, <<"y", "\n">>}
Infos ==
    {NoInfo,
     [present |-> TRUE, dict |-> {}],
     [present |-> TRUE, dict |-> {<<"/Title", "T">>, <<"/Author", "A">>}]}

\* the PDFs PDFFileLoader.path may name
PdfPool ==
    {PdfFile(<<>>, TRUE, <<>>, 0, NoInfo)}
    \cup UNION {{PdfFile(<<>>, FALSE, p, bad, info) : bad \in 0 .. Len(p), info \in Infos} :
                    p \in SeqsUpTo(PageTexts, MaxPages)}

\* dict.get(key, default)
Get(d, key, default) ==
    IF \E kv \in d : kv[1] = key THEN (CHOOSE kv \in d : kv[1] = key)[2] ELSE default

\* the dictionary literal of load_pdf_with_metadata
PageMetadata(file, page_num) ==
    [source_file |-> PdfPath,
     page_number |-> page_num + 1,
     total_pages |-> Len(file.pages),
     document_title |-> Get(file.info.dict, "/Title", "Unknown"),
     document_author |-> Get(file.info.dict, "/Author", "Unknown"),
     document_subject |-> Get(file.info.dict, "/Subject", ""),
     document_creator |-> Get(file.info.dict, "/Creator", ""),
     document_producer |-> Get(file.info.dict, "/Producer", ""),
     creation_date |-> Get(file.info.dict, "/CreationDate", ""),
     modification_date |-> Get(file.info.dict, "/ModDate", "")]

PdfOutcome(docs, meta, raised) == [documents |-> docs, metadata |-> meta, raised |-> raised]

\* the loop body with the metadata appended outside the test for text
PageStepMetaAlways(self_documents, self_metadata, file, page_num) ==
    IF file.badPage = page_num + 1
    THEN PdfOutcome(self_documents, self_metadata, "PdfReadError")
    ELSE IF ~file.info.present
    THEN PdfOutcome(self_documents, self_metadata, "AttributeError")
    ELSE LET text_content == file.pages[page_num + 1]
         IN  IF Strip(text_content) # <<>>
             THEN PdfOutcome(Append(self_documents, text_content),
                             Append(self_metadata, PageMetadata(file, page_num)), "none")
             ELSE PdfOutcome(self_documents,
                             Append(self_metadata, PageMetadata(file, page_num)), "none")

\* the body of the page loop of load_pdf_with_metadata
PageStep(self_documents, self_metadata, file, page_num) ==
    IF file.badPage = page_num + 1
    THEN PdfOutcome(self_documents, self_metadata, "PdfReadError")
    ELSE LET text_content == file.pages[page_num + 1]
         IN  IF Strip(text_content) # <<>>
             THEN IF ~file.info.present
                  \* doc_info is None: doc_info.get raises before either append
                  THEN PdfOutcome(self_documents, self_metadata, "AttributeError")
                  ELSE PdfOutcome(Append(self_documents, text_content),
                                  Append(self_metadata, PageMetadata(file, page_num)),
                                  "none")
             ELSE PdfOutcome(self_documents, self_metadata, "none")

RECURSIVE PageLoop(_, _, _, _)
\* for page_num in range(len(pdf_reader.pages)), from page_num on
PageLoop(self_documents, self_metadata, file, page_num) ==
    IF page_num >= Len(file.pages) THEN PdfOutcome(self_documents, self_metadata, "none")
    ELSE LET r == PageStep(self_documents, self_metadata, file, page_num)
         IN  IF r.raised # "none" THEN r
             ELSE PageLoop(r.documents, r.metadata, file, page_num + 1)

\* PDFFileLoader.load_pdf_with_metadata
load_pdf_with_metadata(self_documents, self_metadata, file) ==
    IF file.openFails THEN PdfOutcome(self_documents, self_metadata, "PdfReadError")
    ELSE PageLoop(self_documents, self_metadata, file, 0)

NoPdfCall ==
    [op |-> "none", raised |-> "none", history |-> <<>>, returns |-> FALSE,
     returned |-> <<<<>>, <<>>>>]

\* pdf_loader.load_pdf_with_metadata(): returns None
LoadPdfWithMetadata ==
    /\ Len(pdfCall.history) < MaxCalls
    /\ LET r == load_pdf_with_metadata(pdf_documents, pdf_metadata, pdf)
       IN  /\ pdf_documents' = r.documents
           /\ pdf_metadata' = r.metadata
           /\ pdfCall' = [op |-> "load_pdf_with_metadata", raised |-> r.raised,
                          history |-> Append(pdfCall.history, Len(pdf_documents)),
                          returns |-> FALSE, returned |-> <<<<>>, <<>>>>]
    /\ UNCHANGED <<pdf, splitterVars, loaderVars>>

\* pdf_loader.load_documents(): load_pdf_with_metadata(), then return both lists
PdfLoadDocuments ==
    /\ Len(pdfCall.history) < MaxCalls
    /\ LET r == load_pdf_with_metadata(pdf_documents, pdf_metadata, pdf)
       IN  /\ pdf_documents' = r.documents
           /\ pdf_metadata' = r.metadata
           /\ pdfCall' = [op |-> "load_documents", raised |-> r.raised,
                          history |-> Append(pdfCall.history, Len(pdf_documents)),
                          returns |-> (r.raised = "none"),
                          returned |-> IF r.raised = "none"
                                       THEN <<r.documents, r.metadata>>
                                       ELSE <<<<>>, <<>>>>]
    /\ UNCHANGED <<pdf, splitterVars, loaderVars>>

----------------------------------------------------------------------------
\* Specifications: one per class.

IdleSplitter == splitter = NoObject /\ lastCall = NoCall
IdleLoader ==
    /\ target = Missing
    /\ documents = <<>>
    /\ loadCall = NoLoadCall
    /\ calls = 0
    /\ firstResult = NoFirst
IdlePdf ==
    /\ pdf = PdfFile(<<>>, TRUE, <<>>, 0, NoInfo)
    /\ pdf_documents = <<>>
    /\ pdf_metadata = <<>>
    /\ pdfCall = NoPdfCall

\* no splitter constructed yet
SplitInit == IdleSplitter /\ IdleLoader /\ IdlePdf
SplitNext == Construct \/ Split \/ SplitTexts
SpecSplit == SplitInit /\ [][SplitNext]_vars

\* TextFileLoader.__init__ on a path of any filesystem
LoadInit ==
    /\ IdleSplitter /\ IdlePdf
    /\ target \in Targets
    /\ documents = <<>>
    /\ loadCall = NoLoadCall
    /\ calls = 0
    /\ firstResult = NoFirst
LoadNext == Load \/ LoadDocuments \/ Replace
SpecLoad == LoadInit /\ [][LoadNext]_vars

\* PDFFileLoader.__init__ on a path of any filesystem
PdfInit ==
    /\ IdleSplitter /\ IdleLoader
    /\ pdf \in PdfPool
    /\ pdf_documents = <<>>
    /\ pdf_metadata = <<>>
    /\ pdfCall = NoPdfCall
PdfNext == LoadPdfWithMetadata \/ PdfLoadDocuments
SpecPdf == PdfInit /\ [][PdfNext]_vars

Init == SplitInit
Next == SplitNext
Spec == SpecSplit

----------------------------------------------------------------------------
\* Claims about CharacterTextSplitter (SpecSplit).

\* ceil(a / b) for a >= 0 and b > 0
CeilDiv(a, b) == (a + b - 1) \div b

Splitting == lastCall.op = "split"
Size == splitter.chunk_size
Overlap == splitter.chunk_overlap

\* C1 as stated: split(s) returns ceil(max(len(s) - k, 0) / (n - k)) chunks for a
\* non-empty s, and none for the empty string.
C1_ChunkCountAsClaimed ==
    Splitting =>
        Len(lastCall.out) =
            IF lastCall.text = <<>> THEN 0
            ELSE CeilDiv(Max(Len(lastCall.text) - Overlap, 0), Size - Overlap)

\* C1 amended: split(s) returns ceil(len(s) / (n - k)) chunks, one per offset
\* 0, n-k, 2(n-k), ... below len(s); none for the empty string.
C1_ChunkCount ==
    Splitting => Len(lastCall.out) = CeilDiv(Len(lastCall.text), Size - Overlap)

\* a text whose last chunk starts within the overlap of the chunk before it
C1_Witness ==
    /\ Splitting
    /\ Overlap > 0
    /\ Len(lastCall.out) >= 3
    /\ Len(lastCall.out) # CeilDiv(Max(Len(lastCall.text) - Overlap, 0), Size - Overlap)

\* C2 as stated: a text no longer than chunk_size gives exactly one chunk, the text.
C2_ShortTextOneChunkAsClaimed ==
    (Splitting /\ Len(lastCall.text) <= Size) => lastCall.out = <<lastCall.text>>

\* C2 amended: a non-empty text no longer than chunk_size and no longer than
\* chunk_size - chunk_overlap gives exactly one chunk, the text.
C2_ShortTextOneChunk ==
    (/\ Splitting
     /\ lastCall.text # <<>>
     /\ Len(lastCall.text) <= Size
     /\ Len(lastCall.text) <= Size - Overlap) => lastCall.out = <<lastCall.text>>

C2_Witness ==
    /\ Splitting
    /\ Overlap > 0
    /\ Len(lastCall.text) = Size - Overlap
    /\ lastCall.out = <<lastCall.text>>

\* a chunk without its first k characters (all of it when k <= 0)
DropFirst(chunk, k) == SubSeq(chunk, Max(k, 0) + 1, Len(chunk))

RECURSIVE Reassemble(_, _)
\* the first chunk followed by every later chunk without its first k characters
Reassemble(chunks, k) ==
    IF chunks = <<>> THEN <<>>
    ELSE IF Len(chunks) = 1 THEN chunks[1]
    ELSE Reassemble(SubSeq(chunks, 1, Len(chunks) - 1), k) \o DropFirst(chunks[Len(chunks)], k)

\* chunk i is s[offset .. offset + min(n, len(s) - offset)) at offset (i-1)(n-k),
\* and the chunks reassemble to s
Tiles(chunks, s, n, k) ==
    /\ \A i \in 1 .. Len(chunks) :
        LET offset == (i - 1) * (n - k)
        IN  /\ offset < Len(s)
            /\ Len(chunks[i]) = Min(n, Len(s) - offset)
            /\ \A j \in 1 .. Len(chunks[i]) : chunks[i][j] = s[offset + j]
    /\ Reassemble(chunks, k) = s

\* C3: for every (chunk_size, chunk_overlap) the constructor accepts, the chunks of
\* split(s) tile s: chunk i is the substring at offset i*(size - overlap) of length
\* min(size, len(s) - offset), and the first chunk followed by the later chunks
\* without their first chunk_overlap characters is s.
C3_ChunksTile == Splitting => Tiles(lastCall.out, lastCall.text, Size, Overlap)

\* The same for the pairs with 0 <= chunk_overlap < chunk_size only.
C3_ChunksTileNonNegativeOverlap ==
    (Splitting /\ Overlap >= 0) => Tiles(lastCall.out, lastCall.text, Size, Overlap)

RECURSIVE ChunksBefore(_, _)
\* the number of chunks of the texts before the j-th
ChunksBefore(texts, j) ==
    IF j <= 1 THEN 0
    ELSE ChunksBefore(texts, j - 1) + Len(split(splitter, texts[j - 1]))

IsSubstring(c, s) == \E lo \in 0 .. Len(s) : \E hi \in lo .. Len(s) : c = SubSeq(s, lo + 1, hi)

\* C4: split_texts(texts) is the chunks of split(t) for each t of texts, in input
\* order: split_texts([a, b]) = split(a) + split(b), and every chunk returned lies
\* within the one text it comes from.
C4_SplitTextsConcatenates ==
    lastCall.op = "split_texts" =>
        LET texts == lastCall.texts
            out == lastCall.out
        IN  /\ Len(out) = ChunksBefore(texts, Len(texts) + 1)
            /\ \A j \in 1 .. Len(texts) :
                LET part == split(splitter, texts[j])
                IN  \A i \in 1 .. Len(part) :
                        /\ out[ChunksBefore(texts, j) + i] = part[i]
                        /\ IsSubstring(out[ChunksBefore(texts, j) + i], texts[j])
            /\ Len(texts) = 2 => out = split(splitter, texts[1]) \o split(splitter, texts[2])

\* two texts of several chunks each, where splitting them joined gives other chunks
C4_Witness ==
    /\ lastCall.op = "split_texts"
    /\ Len(lastCall.texts) = 2
    /\ Len(split(splitter, lastCall.texts[1])) >= 2
    /\ Len(split(splitter, lastCall.texts[2])) >= 2
    /\ lastCall.out # split(splitter, lastCall.texts[1] \o lastCall.texts[2])

C5_Constructed ==
    /\ splitter.exists => splitter.chunk_size > splitter.chunk_overlap
    /\ lastCall.op = "init" =>
        IF lastCall.chunk_overlap >= lastCall.chunk_size
        THEN lastCall.raised = "AssertionError" /\ ~lastCall.obj.exists
        ELSE /\ lastCall.raised = "none"
             /\ lastCall.obj.exists
             /\ lastCall.obj.chunk_size = lastCall.chunk_size
             /\ lastCall.obj.chunk_overlap = lastCall.chunk_overlap
             /\ splitter = lastCall.obj

\* C5: constructing a splitter with chunk_overlap >= chunk_size raises and yields no
\* object; with chunk_size > chunk_overlap it stores exactly the two values; so a
\* splitter that exists has chunk_size > chunk_overlap, and split and split_texts
\* leave the two values alone.
C5_ConstructorEnforcesSizeAboveOverlap ==
    /\ []C5_Constructed
    /\ [][lastCall'.op \in {"split", "split_texts"} => splitter' = splitter]_vars

\* a rejected construction after an accepted one
C5_Witness ==
    /\ lastCall.op = "init"
    /\ lastCall.raised = "AssertionError"
    /\ lastCall.chunk_overlap = lastCall.chunk_size
    /\ splitter.exists

----------------------------------------------------------------------------
\* Claims about TextFileLoader (SpecLoad).

IsTxt(f) == EndsWith(f.name, DotTxt)
IsPdf(f) == ~IsTxt(f) /\ EndsWith(f.name, DotPdf)
Supported(f) == IsTxt(f) \/ IsPdf(f)

\* some page of the PDF has a character that is not whitespace
HasText(f) == \E p \in 1 .. Len(f.pages) : \E c \in 1 .. Len(f.pages[p]) :
                  f.pages[p][c] \notin Whitespace

RECURSIVE PdfText(_)
\* the page texts in page order, a newline after each
PdfText(pages) ==
    IF pages = <<>> THEN <<>> ELSE Head(pages) \o <<"\n">> \o PdfText(Tail(pages))

\* the file loads without an exception
LoadsCleanly(f) ==
    /\ IsTxt(f) => f.decodable
    /\ IsPdf(f) => ~f.openFails /\ f.badPage = 0

\* the documents a file of a directory is to contribute
Contribution(f) ==
    IF IsTxt(f) THEN <<f.text>>
    ELSE IF IsPdf(f) /\ HasText(f) THEN <<PdfText(f.pages)>>
    ELSE <<>>

RECURSIVE Contributions(_, _)
\* the contributions of the first n files, in walk order
Contributions(files, n) ==
    IF n = 0 THEN <<>> ELSE Contributions(files, n - 1) \o Contribution(files[n])

IsPrefix(s, t) == Len(s) <= Len(t) /\ SubSeq(t, 1, Len(s)) = s

RECURSIVE Repeat(_, _)
\* k consecutive copies of s
Repeat(s, k) == IF k = 0 THEN <<>> ELSE Repeat(s, k - 1) \o s

Called == loadCall.op # "none"
Seen == loadCall.fs

\* C6: load() on a path that is neither directory nor file, or on a file ending in
\* neither .txt nor .pdf, raises ValueError, reads no file and leaves self.documents
\* as it was; in a directory such a file raises nothing, is not read and contributes
\* no document.
C6_InvalidInputRejected ==
    Called =>
        /\ (\/ Seen.kind = "missing"
            \/ Seen.kind = "file" /\ ~Supported(Seen.file)) =>
                /\ loadCall.raised = "ValueError"
                /\ ~loadCall.returns
                /\ loadCall.reads = <<>>
                /\ documents = loadCall.before
        /\ Seen.kind = "dir" =>
                /\ loadCall.raised # "ValueError"
                /\ \A r \in 1 .. Len(loadCall.reads) : Supported(Seen.files[loadCall.reads[r]])
                /\ (\A i \in 1 .. Len(Seen.files) : ~Supported(Seen.files[i])) =>
                        /\ loadCall.raised = "none"
                        /\ documents = loadCall.before

\* a rejected file of another type, with documents loaded before it was put there
C6_Witness ==
    /\ Called
    /\ Seen.kind = "file"
    /\ ~Supported(Seen.file)
    /\ loadCall.raised = "ValueError"
    /\ Len(documents) > 0

\* a directory of files of another type only, loaded without an exception
C6_WitnessDirectory ==
    /\ Called
    /\ Seen.kind = "dir"
    /\ Len(Seen.files) = 2
    /\ \A i \in 1 .. 2 : ~Supported(Seen.files[i])
    /\ loadCall.raised = "none"

Fails(f) == Supported(f) /\ ~LoadsCleanly(f)

\* the first file of the walk that raises
FirstBad(files) == CHOOSE i \in 1 .. Len(files) :
                       Fails(files[i]) /\ \A j \in 1 .. (i - 1) : ~Fails(files[j])

\* C9: when a PDF of a directory raises, load()/load_documents() ends with that
\* exception and never returns: no file after the PDF is read, the PDF contributes
\* no document, and self.documents keeps what it held plus the documents of the
\* files before the PDF.
C9_PdfFailureAborts ==
    (/\ Called
     /\ Seen.kind = "dir"
     /\ \E i \in 1 .. Len(Seen.files) : Fails(Seen.files[i])
     /\ IsPdf(Seen.files[FirstBad(Seen.files)])) =>
        LET bad == FirstBad(Seen.files)
        IN  /\ loadCall.raised = "PdfReadError"
            /\ ~loadCall.returns
            /\ \A i \in 1 .. Len(Seen.files) :
                  (\E r \in 1 .. Len(loadCall.reads) : loadCall.reads[r] = i)
                      <=> (i <= bad /\ Supported(Seen.files[i]))
            /\ \A r \in 1 .. (Len(loadCall.reads) - 1) : loadCall.reads[r] < loadCall.reads[r + 1]
            /\ documents = loadCall.before \o Contributions(Seen.files, bad - 1)

\* the second load of a directory of a .txt file and a PDF that raises
C9_Witness ==
    /\ Called
    /\ Seen.kind = "dir"
    /\ Len(Seen.files) = 2
    /\ IsTxt(Seen.files[1])
    /\ IsPdf(Seen.files[2]) /\ Fails(Seen.files[2])
    /\ loadCall.op = "load_documents"
    /\ loadCall.raised = "PdfReadError"
    /\ Len(loadCall.before) = 1
    /\ Len(documents) = 2

C10_Accumulated ==
    Called =>
        /\ IsPrefix(loadCall.before, documents)
        /\ firstResult.unchanged =>
              /\ documents = Repeat(firstResult.documents, calls)
              /\ loadCall.returns => loadCall.returned = Repeat(firstResult.documents, calls)
        /\ (Seen.kind = "dir" /\ loadCall.raised = "none") =>
              documents = loadCall.before \o Contributions(Seen.files, Len(Seen.files))
        /\ Seen.kind = "dir" => Len(documents) - Len(loadCall.before) <= Len(loadCall.reads)

\* C10: self.documents is only ever appended to: after any calls it is what every
\* call so far added, in order; with the filesystem unchanged the k-th call leaves
\* (and load_documents returns) k copies of what the first call left; and in a
\* directory each PDF adds its own zero or one document, never the documents the
\* loader already holds.
C10_DocumentsAccumulate ==
    /\ []C10_Accumulated
    /\ [][IsPrefix(documents, documents')]_vars

\* the second load of a directory of a .txt file and a PDF with text
C10_Witness ==
    /\ calls = 2
    /\ firstResult.unchanged
    /\ Seen.kind = "dir"
    /\ \E i \in 1 .. Len(Seen.files) : IsPdf(Seen.files[i]) /\ HasText(Seen.files[i])
    /\ \E i \in 1 .. Len(Seen.files) : IsTxt(Seen.files[i])
    /\ loadCall.returns
    /\ Len(loadCall.returned) = 4

----------------------------------------------------------------------------
\* Claims about PDFFileLoader (SpecPdf).

\* the page text has a character that is not whitespace
NotBlank(text) == \E c \in 1 .. Len(text) : text[c] \notin Whitespace

\* where the entries of the c-th call end
CallEnd(c) ==
    IF c < Len(pdfCall.history) THEN pdfCall.history[c + 1] ELSE Len(pdf_documents)

\* C8: in every state PDFFileLoader reaches, also after load_pdf_with_metadata has
\* raised part-way and after repeated calls, documents and metadata have the same
\* length and metadata[i] describes the page whose text is documents[i]: a page of
\* whitespace adds to neither list, page_number is the 1-based number of the page
\* of documents[i], and it increases strictly within one load.
C8_MetadataAligned ==
    /\ Len(pdf_documents) = Len(pdf_metadata)
    /\ \A i \in 1 .. Len(pdf_metadata) :
        /\ pdf_metadata[i].page_number \in 1 .. Len(pdf.pages)
        /\ pdf.pages[pdf_metadata[i].page_number] = pdf_documents[i]
        /\ NotBlank(pdf_documents[i])
        /\ pdf_metadata[i].total_pages = Len(pdf.pages)
        /\ pdf_metadata[i].source_file = PdfPath
    /\ \A c \in 1 .. Len(pdfCall.history) :
        /\ pdfCall.history[c] <= CallEnd(c)
        /\ \A i \in (pdfCall.history[c] + 1) .. (CallEnd(c) - 1) :
              pdf_metadata[i].page_number < pdf_metadata[i + 1].page_number
    /\ (pdfCall.op # "none" /\ pdfCall.raised = "none") =>
          Len(pdf_documents) - pdfCall.history[Len(pdfCall.history)]
              = Cardinality({p \in 1 .. Len(pdf.pages) : NotBlank(pdf.pages[p])})
    /\ pdfCall.returns => pdfCall.returned = <<pdf_documents, pdf_metadata>>

\* a second load that raised part-way, of a PDF whose first page is blank
C8_Witness ==
    /\ Len(pdfCall.history) = 2
    /\ pdfCall.raised = "PdfReadError"
    /\ Len(pdf.pages) = 3
    /\ ~NotBlank(pdf.pages[1])
    /\ Len(pdf_documents) = 2
    /\ pdf_metadata[2].page_number = 2

====
